---- MODULE Spec2Model ----
(***************************************************************************)
(* Model of wikibase_data_processor.py: the WikibaseHandler entity         *)
(* resolver with its reconciliation cache, the DataProcessor field         *)
(* transforms, statement builder, row processor and batch driver.          *)
(*                                                                         *)
(* Python strings are sequences of one-character strings.  Python values   *)
(* are tagged records (None, NaN, int, str, datetime, item id).  The       *)
(* remote Wikibase is a sequence of labels (item Qn is position n) and a   *)
(* parallel sequence of the statements written to each item.               *)
(***************************************************************************)
EXTENDS Integers, Sequences, FiniteSets, TLC

VARIABLES
    cache,            \* WikibaseHandler.cache: label -> item number
    labels,           \* remote store: labels[n] is the English label of Qn
    stmts,            \* remote store: stmts[n] is the statements written to Qn
    created,          \* item numbers created by this run (a history variable)
    op,               \* the last operation: its name, arguments and outcome
    log,              \* remote calls of the last operation and their outcomes
    calls,            \* get_or_create_item calls of the last operation, in order
    properties,       \* the dict _gather_properties returned in the last row
    item_statements,  \* the list _create_statements returned in the last row
    data,             \* DataProcessor.data: the rows of the spreadsheet
    index,            \* position of the row iterator in process_data
    pc,               \* where process_data is
    finalWrites       \* indexes of the rows whose final write succeeded

vars == <<cache, labels, stmts, created, op, log, calls, properties,
          item_statements, data, index, pc, finalWrites>>

(***************************************************************************)
(* Bounds.                                                                 *)
(***************************************************************************)
MaxFailAt == 4        \* handler runs: the k-th remote call fails, k <= this
MaxRowFailAt == 16    \* batch runs: the k-th remote call of a row fails
MaxRows == 3          \* batch runs: rows in the spreadsheet
MaxPreexisting == 1   \* items already in the remote store besides Q1 and Q2

(***************************************************************************)
(* Program constants.                                                      *)
(***************************************************************************)
RESEARCH_ARTICLE == 1
AUTHOR == 2
NO_TYPE == 0          \* the default of get_or_create_item's item_type

(***************************************************************************)
(* Python values.                                                          *)
(***************************************************************************)
None == [t |-> "None"]
NaN == [t |-> "nan"]
PyInt(n) == [t |-> "int", n |-> n]
PyStr(s) == [t |-> "str", s |-> s]
PyDate(d, m, y) == [t |-> "datetime", d |-> d, m |-> m, y |-> y]
Qid(q) == [t |-> "qid", q |-> q]

\* pd.isnull on a scalar
isnull(v) == v.t \in {"nan", "None"}

\* Python truth value, as the `if properties[...]` tests take it
Truthy(v) ==
    CASE v.t = "None" -> FALSE
      [] v.t = "int" -> v.n # 0
      [] v.t = "str" -> v.s # <<>>
      [] OTHER -> TRUE

(***************************************************************************)
(* Python string operations.                                               *)
(***************************************************************************)
Digits == <<"0", "1", "2", "3", "4", "5", "6", "7", "8", "9">>

Contains(s, sub) ==
    \E i \in 1..(Len(s) - Len(sub) + 1) : SubSeq(s, i, i + Len(sub) - 1) = sub

StartsWith(s, p) == Len(s) >= Len(p) /\ SubSeq(s, 1, Len(p)) = p

\* position of the first character of s that is in chars, or Len(s) + 1
FirstOf(s, chars) ==
    IF \E i \in 1..Len(s) : s[i] \in chars
    THEN CHOOSE i \in 1..Len(s) :
            s[i] \in chars /\ \A j \in 1..(i - 1) : s[j] \notin chars
    ELSE Len(s) + 1

\* str.split(sep) for a one-character separator
RECURSIVE Split(_, _)
Split(s, sep) ==
    LET i == FirstOf(s, {sep}) IN
    IF i > Len(s) THEN <<s>>
    ELSE <<SubSeq(s, 1, i - 1)>> \o Split(SubSeq(s, i + 1, Len(s)), sep)

\* str.lstrip(chars)
RECURSIVE LStrip(_, _)
LStrip(s, chars) ==
    IF s # <<>> /\ s[1] \in chars THEN LStrip(Tail(s), chars) ELSE s

RECURSIVE RStrip(_, _)
RStrip(s, chars) ==
    IF s # <<>> /\ s[Len(s)] \in chars
    THEN RStrip(SubSeq(s, 1, Len(s) - 1), chars)
    ELSE s

\* str.strip()
Strip(s) == RStrip(LStrip(s, {" "}), {" "})

\* str(n) for an int n >= 0
RECURSIVE IntToStr(_)
IntToStr(n) ==
    IF n < 10 THEN <<Digits[n + 1]>>
    ELSE IntToStr(n \div 10) \o <<Digits[(n % 10) + 1]>>

\* str(v), for the values a cell holds
str(v) == IF v.t = "int" THEN PyStr(IntToStr(v.n)) ELSE v

IsDigit(c) == \E i \in 1..10 : Digits[i] = c
DigitVal(c) == (CHOOSE i \in 1..10 : Digits[i] = c) - 1

RECURSIVE StrToInt(_)
StrToInt(s) ==
    IF s = <<>> THEN 0
    ELSE 10 * StrToInt(SubSeq(s, 1, Len(s) - 1)) + DigitVal(s[Len(s)])

\* n as exactly w digits, zero padded (n < 10^w)
RECURSIVE Pad(_, _)
Pad(n, w) == IF w = 0 THEN <<>> ELSE Pad(n \div 10, w - 1) \o <<Digits[(n % 10) + 1]>>

(***************************************************************************)
(* urllib.parse.urlparse(url).path: the scheme is cut at the first ":"     *)
(* when everything before it is scheme characters, a "//" introduces the   *)
(* network location up to the next "/", "?" or "#", and the path ends at   *)
(* the first "?" or "#".                                                   *)
(***************************************************************************)
Letters ==
    {"a", "b", "c", "d", "e", "f", "g", "h", "i", "j", "k", "l", "m", "n",
     "o", "p", "q", "r", "s", "t", "u", "v", "w", "x", "y", "z"}
SchemeChars == Letters \cup {Digits[i] : i \in 1..10} \cup {"+", "-", "."}

AfterScheme(url) ==
    LET i == FirstOf(url, {":"}) IN
    IF /\ i > 1
       /\ i <= Len(url)
       /\ url[1] \in Letters
       /\ \A j \in 1..(i - 1) : url[j] \in SchemeChars
    THEN SubSeq(url, i + 1, Len(url))
    ELSE url

AfterNetloc(rest) ==
    IF StartsWith(rest, <<"/", "/">>)
    THEN LET r == SubSeq(rest, 3, Len(rest)) IN
         SubSeq(r, FirstOf(r, {"/", "?", "#"}), Len(r))
    ELSE rest

urlparse_path(url) ==
    LET r == AfterNetloc(AfterScheme(url)) IN
    SubSeq(r, 1, FirstOf(r, {"?", "#"}) - 1)

(***************************************************************************)
(* The state an operation threads through its steps.  failAt = k makes the *)
(* k-th remote call of the operation raise (0: none does); err is set once *)
(* an exception is in flight, and every later step is then skipped.        *)
(***************************************************************************)
Enter(failAt) ==
    [cache |-> cache, labels |-> labels, stmts |-> stmts, created |-> created,
     log |-> <<>>, calls |-> <<>>, failAt |-> failAt, err |-> FALSE, ret |-> 0,
     properties |-> <<>>, item_statements |-> <<>>, written |-> FALSE]

Raise(s) == [s EXCEPT !.err = TRUE]

\* sequencing: v is evaluated once and F continues from its value
Then(v, F(_)) == CHOOSE r \in {F(x) : x \in {v}} : TRUE

\* one remote call: recorded with its outcome, failing when it is the failAt-th
RemoteCall(s, call) ==
    [s EXCEPT !.log = Append(@, [req |-> call, ok |-> s.failAt # Len(s.log) + 1]),
              !.err = (s.failAt = Len(s.log) + 1)]

\* a search that finds nothing
search_results_none(ls, title) == <<>>

\* WDItemEngine.get_wd_search_results: the items carrying that label
search_results(ls, title) ==
    LET F[n \in 0..Len(ls)] ==
            IF n = 0 THEN <<>>
            ELSE IF ls[n] = title THEN Append(F[n - 1], n) ELSE F[n - 1]
    IN F[Len(ls)]

P20(q) == [prop |-> "20", kind |-> "WDItemID", value |-> Qid(q)]

\* WDItemEngine(wd_item_id, data).write(login): data is added to the item
write_item(s, id, statements) ==
    Then(RemoteCall(s, [call |-> "write", item |-> id, n |-> Len(statements)]),
         LAMBDA s1 :
            IF s1.err THEN s1
            ELSE [s1 EXCEPT !.stmts[id] = @ \o statements])

add_research_article_statements(s, id) == write_item(s, id, <<P20(2)>>)

add_author_statements(s, id) == write_item(s, id, <<P20(1)>>)

\* WDItemEngine(data=[]), set_label(title), write(login): a new item
write_new_item(s, title) ==
    Then(RemoteCall(s, [call |-> "create", label |-> title]),
         LAMBDA s1 :
            IF s1.err THEN s1
            ELSE [s1 EXCEPT !.labels = Append(@, title),
                            !.stmts = Append(@, <<>>),
                            !.created = @ \cup {Len(s1.labels) + 1},
                            !.ret = Len(s1.labels) + 1])

\* every item type but RESEARCH_ARTICLE is given the author statement
add_baseline_every_type(s, id, item_type) ==
    IF item_type = RESEARCH_ARTICLE THEN add_research_article_statements(s, id)
    ELSE add_author_statements(s, id)

add_baseline(s, id, item_type) ==
    IF item_type = RESEARCH_ARTICLE THEN add_research_article_statements(s, id)
    ELSE IF item_type = AUTHOR THEN add_author_statements(s, id)
    ELSE s

store_in_cache(s, title, id) ==
    [s EXCEPT !.cache = (title :> id) @@ @, !.ret = id]

found_item(s, title, id) == [s EXCEPT !.ret = id]

\* the id is cached as soon as the item is written, before the baseline write
create_item_cache_first(s, title, item_type) ==
    Then(write_new_item(s, title), LAMBDA s2 :
        IF s2.err THEN s2
        ELSE Then(store_in_cache(s2, title, s2.ret), LAMBDA s3 :
                add_baseline(s3, s2.ret, item_type)))

create_item(s, title, item_type) ==
    Then(write_new_item(s, title), LAMBDA s2 :
        IF s2.err THEN s2
        ELSE Then(add_baseline(s2, s2.ret, item_type), LAMBDA s3 :
                IF s3.err THEN s3 ELSE store_in_cache(s3, title, s2.ret)))

\* a lookup that never hits
in_cache_never(s, title) == FALSE

in_cache(s, title) == title \in DOMAIN s.cache

cached_item(s, title) == [s EXCEPT !.ret = s.cache[title]]

search_and_create(s, title, item_type) ==
    Then(RemoteCall(s, [call |-> "search", label |-> title]), LAMBDA s1 :
        IF s1.err THEN s1
        ELSE Then(search_results(s1.labels, title), LAMBDA item :
                IF item # <<>> THEN found_item(s1, title, item[1])
                ELSE create_item(s1, title, item_type)))

get_or_create_item(s0, title, item_type) ==
    IF s0.err THEN s0
    ELSE Then([s0 EXCEPT !.calls =
                    Append(@, [title |-> title, item_type |-> item_type])],
              LAMBDA s :
                IF in_cache(s, title) THEN cached_item(s, title)
                ELSE search_and_create(s, title, item_type))

(***************************************************************************)
(* Field transforms.                                                       *)
(***************************************************************************)
Error == [t |-> "error"]

IsLeap(y) == (y % 4 = 0 /\ y % 100 # 0) \/ y % 400 = 0

DaysIn(m, y) ==
    IF m = 2 THEN (IF IsLeap(y) THEN 29 ELSE 28)
    ELSE IF m \in {4, 6, 9, 11} THEN 30 ELSE 31

AllDigits(s) == \A i \in 1..Len(s) : IsDigit(s[i])

\* datetime.strptime(s, "%d-%m-%Y"): a datetime, or Error when s does not match
strptime(s) ==
    LET parts == Split(s, "-") IN
    IF /\ Len(parts) = 3
       /\ Len(parts[1]) \in {1, 2} /\ AllDigits(parts[1])
       /\ Len(parts[2]) \in {1, 2} /\ AllDigits(parts[2])
       /\ Len(parts[3]) = 4 /\ AllDigits(parts[3])
    THEN LET d == StrToInt(parts[1])
             m == StrToInt(parts[2])
             y == StrToInt(parts[3])
         IN IF m \in 1..12 /\ y >= 1 /\ d >= 1 /\ d <= DaysIn(m, y)
            THEN PyDate(d, m, y) ELSE Error
    ELSE Error

\* date.strftime("%d-%m-%Y")
strftime_dmy(date) ==
    Pad(date.d, 2) \o <<"-">> \o Pad(date.m, 2) \o <<"-">> \o Pad(date.y, 4)

\* date.strftime("+%Y-%m-%dT%H:%M:%SZ"); a parsed date has no time of day
strftime_wikibase(date) ==
    <<"+">> \o Pad(date.y, 4) \o <<"-">> \o Pad(date.m, 2) \o <<"-">>
    \o Pad(date.d, 2)
    \o <<"T", "0", "0", ":", "0", "0", ":", "0", "0", "Z">>

format_date(date) ==
    LET text == IF date.t = "datetime" THEN PyStr(strftime_dmy(date)) ELSE date IN
    IF text.t # "str" THEN Error
    ELSE LET parsed == strptime(text.s) IN
         IF parsed = Error THEN Error ELSE PyStr(strftime_wikibase(parsed))

DoiOrg == <<"d", "o", "i", ".", "o", "r", "g">>
Http == <<"h", "t", "t", "p">>
HttpsPrefix == <<"h", "t", "t", "p", "s", ":", "/", "/">>

extract_doi(doi) ==
    IF Contains(doi.s, DoiOrg)
    THEN LET url == IF StartsWith(doi.s, Http) THEN doi.s ELSE HttpsPrefix \o doi.s IN
         PyStr(LStrip(urlparse_path(url), {"/"}))
    ELSE None

\* the cell is passed on as a URL whatever it holds
process_url_any(url) == url

process_url(url) ==
    IF ~Contains(url.s, DoiOrg) THEN url ELSE None

(***************************************************************************)
(* Statement builder.                                                      *)
(***************************************************************************)
Statement(kind, value, prop_nr) == [prop |-> prop_nr, kind |-> kind, value |-> value]

\* the value of a column resolved through the handler, threaded through s
resolve_column(s, v) ==
    IF isnull(v) THEN s ELSE get_or_create_item(s, v.s, NO_TYPE)

resolved_value(s, v) == IF isnull(v) THEN None ELSE Qid(s.ret)

present(v) == IF ~isnull(v) THEN v ELSE None

present_str(v) == IF ~isnull(v) THEN str(v) ELSE None

issue_number(v) == IF ~isnull(v) /\ v.t = "int" THEN str(v) ELSE None

gather_properties(s, row, publication_date, doi_identifier, related_url) ==
    Then(resolve_column(s, row.Categoria), LAMBDA s3 :
    Then(resolve_column(s3, row.Fuente), LAMBDA s5 :
    Then(resolve_column(s5, row.RedFormal), LAMBDA s14 :
        IF s14.err THEN s14
        ELSE [s14 EXCEPT !.properties =
                [P2 |-> publication_date,
                 P3 |-> resolved_value(s3, row.Categoria),
                 P5 |-> resolved_value(s5, row.Fuente),
                 P6 |-> present_str(row.Volumen),
                 P7 |-> issue_number(row.Numero),
                 P8 |-> row.Titulo,
                 P9 |-> present_str(row.Pagina),
                 P10 |-> present_str(row.ISSN),
                 P11 |-> doi_identifier,
                 P12 |-> present(row.Cuartil),
                 P13 |-> present(row.CuartilIMFD),
                 P14 |-> resolved_value(s14, row.RedFormal),
                 P16 |-> present(row.NAsociados),
                 P17 |-> present(row.NOtra),
                 P18 |-> present(row.NEstudiantes),
                 P24 |-> related_url]])))

\* [WDItemID(get_or_create_item(x.strip(), item_type), prop_nr) for x in pieces]
RECURSIVE item_list(_, _, _, _)
item_list(s, pieces, item_type, prop_nr) ==
    IF s.err \/ pieces = <<>> THEN s
    ELSE Then(get_or_create_item(s, Strip(Head(pieces)), item_type), LAMBDA s1 :
            IF s1.err THEN s1
            ELSE Then([s1 EXCEPT !.item_statements =
                        Append(@, Statement("WDItemID", Qid(s1.ret), prop_nr))],
                      LAMBDA s2 : item_list(s2, Tail(pieces), item_type, prop_nr)))

authors_separator_semicolon == ";"

authors_separator == ","
research_lines_separator == ";"

author_statements(s, row) ==
    IF row.Autores.t # "str" THEN Raise(s)
    ELSE item_list(s, Split(row.Autores.s, authors_separator), AUTHOR, "P4")

research_line_statements(s, row) ==
    IF s.err THEN s
    ELSE IF row.Lineas.t # "str" THEN Raise(s)
    ELSE item_list(s, Split(row.Lineas.s, research_lines_separator), NO_TYPE, "P15")

\* the `if properties[...]: item_statements.append(...)` lines, in order
ScalarOrder ==
    << <<"P2", "WDTime">>, <<"P3", "WDItemID">>, <<"P5", "WDItemID">>,
       <<"P6", "WDString">>, <<"P7", "WDString">>, <<"P8", "WDString">>,
       <<"P9", "WDString">>, <<"P10", "WDExternalID">>, <<"P11", "WDExternalID">>,
       <<"P12", "WDString">>, <<"P13", "WDString">>, <<"P14", "WDItemID">>,
       <<"P16", "WDQuantity">>, <<"P17", "WDQuantity">>, <<"P18", "WDQuantity">>,
       <<"P24", "WDUrl">> >>

emits(v) == Truthy(v)

scalar_statements(props) ==
    LET F[n \in 0..Len(ScalarOrder)] ==
            IF n = 0 THEN <<>>
            ELSE LET p == ScalarOrder[n][1] IN
                 IF emits(props[p])
                 THEN Append(F[n - 1], Statement(ScalarOrder[n][2], props[p], p))
                 ELSE F[n - 1]
    IN F[Len(ScalarOrder)]

create_statements(s, props, row) ==
    Then(author_statements(s, row), LAMBDA s1 :
    Then(research_line_statements(s1, row), LAMBDA s2 :
        IF s2.err THEN s2
        ELSE [s2 EXCEPT !.item_statements = @ \o scalar_statements(props)]))

(***************************************************************************)
(* Row processor.                                                          *)
(***************************************************************************)
final_write(s, item_id) ==
    Then(write_item(s, item_id, s.item_statements), LAMBDA s1 :
        IF s1.err THEN s1 ELSE [s1 EXCEPT !.written = TRUE])

process_row(s, row) ==
    Then(get_or_create_item(s, row.Titulo.s, RESEARCH_ARTICLE), LAMBDA s1 :
    Then(format_date(row.Fecha), LAMBDA publication_date :
    Then(IF ~isnull(row.DOI) THEN extract_doi(row.DOI) ELSE None, LAMBDA doi_identifier :
    Then(IF ~isnull(row.DOI) THEN process_url(row.DOI) ELSE None, LAMBDA related_url :
        IF s1.err THEN s1
        ELSE IF publication_date = Error THEN Raise(s1)
        ELSE Then(gather_properties(s1, row, publication_date,
                                    doi_identifier, related_url), LAMBDA s2 :
                IF s2.err THEN s2
                ELSE Then(create_statements(s2, s2.properties, row), LAMBDA s3 :
                        IF s3.err THEN s3 ELSE final_write(s3, s1.ret)))))))

\* row.isnull().any()
all_null_any(row) == \E f \in DOMAIN row : isnull(row[f])

\* row.isnull().all()
all_null(row) == \A f \in DOMAIN row : isnull(row[f])

(***************************************************************************)
(* Inputs.                                                                 *)
(***************************************************************************)
Human == <<"h", "u", "m", "a", "n">>                   \* the label of Q1
ResearchArticle == <<"a", "r", "t", "i", "c", "l", "e">>  \* the label of Q2

\* names the handler is asked to resolve
Names == {<<"a">>, <<"b">>, <<"t">>}

\* RESEARCH_ARTICLE, AUTHOR, the default, and a value that is none of them
ItemTypes == {NO_TYPE, RESEARCH_ARTICLE, AUTHOR, 3}

SeqsUpTo(S, n) == UNION {[1..k -> S] : k \in 0..n}

DoiUrl == HttpsPrefix \o DoiOrg \o <<"/", "1", "0", ".", "1", "/", "x">>

BaseRow ==
    [Fecha |-> PyStr(<<"1", "5", "-", "0", "3", "-", "2", "0", "2", "1">>),
     Categoria |-> PyStr(<<"c">>),
     Titulo |-> PyStr(<<"t">>),
     Autores |-> PyStr(<<"a">>),
     Fuente |-> PyStr(<<"f">>),
     Volumen |-> PyInt(7),
     Numero |-> PyInt(12),
     Pagina |-> PyInt(3),
     ISSN |-> PyStr(<<"1", "-", "2">>),
     DOI |-> PyStr(DoiUrl),
     Cuartil |-> PyStr(<<"q", "1">>),
     CuartilIMFD |-> PyStr(<<"q", "2">>),
     RedFormal |-> PyStr(<<"r">>),
     Lineas |-> PyStr(<<"l">>),
     NAsociados |-> PyInt(2),
     NOtra |-> PyInt(1),
     NEstudiantes |-> PyInt(3)]

EmptyRow == [f \in DOMAIN BaseRow |-> NaN]

DoiInputs ==
    {DoiUrl,
     DoiOrg \o <<"/", "1", "0", ".", "1", "/", "x">>,
     <<"h", "t", "t", "p", ":", "/", "/", "d", "x", ".">> \o DoiOrg \o <<"/", "1", "0", "/", "y">>,
     HttpsPrefix \o DoiOrg,
     HttpsPrefix \o DoiOrg \o <<"/">>,
     HttpsPrefix \o DoiOrg \o <<"/", "/", "1", "0", "?", "a", "#", "b">>,
     Http \o DoiOrg \o <<"/", "1", "0">>,
     HttpsPrefix \o <<"e", ".", "c", "l", "/">> \o DoiOrg \o <<"/", "z">>,
     <<"D", "O", "I", ":", " ">> \o DoiUrl,
     HttpsPrefix \o <<"e", ".", "c", "l", "/", "p">>,
     <<"1", "0", ".", "1", "/", "x">>,
     <<"d", "o", "i", ".", "o", "r">>,
     <<"d", "o", "i", "o", "r", "g", "/", "x">>,
     <<>>}

Alternatives ==
    [Fecha |-> {NaN, PyDate(5, 3, 2021),
                PyStr(<<"5", "-", "3", "-", "2", "0", "2", "1">>),
                PyStr(<<"2", "0", "2", "1", "/", "0", "3", "/", "1", "5">>),
                PyStr(<<"3", "1", "-", "0", "2", "-", "2", "0", "2", "1">>)},
     Categoria |-> {NaN, PyStr(<<"a">>)},
     Titulo |-> {PyStr(<<"u">>), PyStr(<<"a">>)},
     Autores |-> {NaN,
                  PyStr(<<"a", ",", " ", "b">>),
                  PyStr(<<"b", ";", "a">>),
                  PyStr(<<" ", "b", " ", ",", "a", ",", "b">>),
                  PyStr(<<"a", ";", " ", "b", ",", "c">>)},
     Fuente |-> {NaN, PyStr(<<"c">>)},
     Volumen |-> {NaN, PyInt(0), PyStr(<<"v">>), PyStr(<<>>)},
     Numero |-> {NaN, PyInt(0), PyStr(<<"1", "2">>)},
     Pagina |-> {NaN, PyInt(0)},
     ISSN |-> {NaN, PyStr(<<>>)},
     DOI |-> {NaN} \cup {PyStr(d) : d \in DoiInputs},
     Cuartil |-> {NaN, PyStr(<<>>)},
     CuartilIMFD |-> {NaN},
     RedFormal |-> {NaN, PyStr(<<"l">>)},
     Lineas |-> {NaN,
                 PyStr(<<"l", ";", " ", "m">>),
                 PyStr(<<"l", ",", "m">>),
                 PyStr(<<"a", ";", "l">>)},
     NAsociados |-> {NaN, PyInt(0)},
     NOtra |-> {NaN, PyInt(0)},
     NEstudiantes |-> {NaN, PyInt(0)}]

\* the base row, and every row that differs from it in one column
VariedRows ==
    {BaseRow} \cup
    {[BaseRow EXCEPT ![f] = v] : <<f, v>> \in
        UNION {{<<g, w>> : w \in Alternatives[g]} : g \in DOMAIN BaseRow}}

\* rows without the optional columns, for runs of several rows
SparseRow(title, authors, lines, date) ==
    [EmptyRow EXCEPT !.Titulo = PyStr(title), !.Autores = PyStr(authors),
                     !.Lineas = PyStr(lines), !.Fecha = date]

BatchRows ==
    {EmptyRow,
     SparseRow(<<"t">>, <<"a">>, <<"l">>, BaseRow.Fecha),
     SparseRow(<<"u">>, <<"a">>, <<"t">>, PyDate(5, 3, 2021)),
     SparseRow(<<"t">>, <<"b">>, <<"l">>,
               PyStr(<<"2", "0", "2", "1", "/", "0", "3", "/", "1", "5">>))}

\* spreadsheets: one varied row, alone or followed by an empty row, or up to
\* MaxRows rows without the optional columns
IsSpreadsheet(d) ==
    \/ \E r \in VariedRows : d = <<r>> \/ d = <<r, EmptyRow>>
    \/ \E k \in 1..MaxRows : d \in [1..k -> BatchRows]

\* labels of the items the remote store holds before the run, after Q1, Q2
PreexistingLabels == {<<"a">>, <<"t">>}

(***************************************************************************)
(* Initial states.                                                         *)
(***************************************************************************)
InitStore ==
    /\ \E pre \in SeqsUpTo(PreexistingLabels, MaxPreexisting) :
            labels = <<Human, ResearchArticle>> \o pre
    /\ stmts = [n \in 1..Len(labels) |-> <<>>]
    /\ cache = <<>>
    /\ created = {}
    /\ op = [name |-> "init"]
    /\ log = <<>>
    /\ calls = <<>>
    /\ properties = <<>>
    /\ item_statements = <<>>
    /\ finalWrites = {}

\* WikibaseHandler.__init__, with a caller that resolves names one by one
InitHandler ==
    /\ InitStore
    /\ data = <<>>
    /\ index = 0
    /\ pc = "handler"

\* WikibaseHandler.__init__ and DataProcessor.__init__, before process_data
InitBatch ==
    /\ InitStore
    /\ IsSpreadsheet(data)
    /\ index = 1
    /\ pc = "prompt"

(***************************************************************************)
(* Actions.                                                                *)
(***************************************************************************)
Commit(s) ==
    /\ cache' = s.cache
    /\ labels' = s.labels
    /\ stmts' = s.stmts
    /\ created' = s.created
    /\ log' = s.log
    /\ calls' = s.calls
    /\ properties' = s.properties
    /\ item_statements' = s.item_statements

\* one call of WikibaseHandler.get_or_create_item
GetOrCreateItem ==
    /\ pc = "handler"
    /\ \E title \in Names, item_type \in ItemTypes, failAt \in 0..MaxFailAt :
        \E s \in {get_or_create_item(Enter(failAt), title, item_type)} :
        /\ Commit(s)
        /\ op' = [name |-> "get_or_create_item", title |-> title,
                  item_type |-> item_type, err |-> s.err, ret |-> s.ret]
    /\ UNCHANGED <<data, index, pc, finalWrites>>

\* process_data: the confirmation prompt
Confirm ==
    /\ pc = "prompt"
    /\ \E response \in {"yes", "no"} :
        /\ pc' = IF response # "yes" THEN "exit" ELSE "loop"
        /\ op' = [name |-> "confirm", response |-> response]
    /\ UNCHANGED <<cache, labels, stmts, created, log, calls, properties,
                   item_statements, data, index, finalWrites>>

\* an iteration that swallows the exception of _process_row and goes on
ProcessRow_continue ==
    /\ pc = "loop"
    /\ index <= Len(data)
    /\ ~all_null(data[index])
    /\ \E failAt \in 0..MaxRowFailAt :
        \E s \in {process_row(Enter(failAt), data[index])} :
        /\ Commit(s)
        /\ op' = [name |-> "process_row", row |-> index, err |-> s.err]
        /\ pc' = "loop"
        /\ index' = index + 1
        /\ finalWrites' = IF s.written THEN finalWrites \cup {index} ELSE finalWrites
    /\ UNCHANGED data

\* process_data: one iteration that reaches _process_row
ProcessRow ==
    /\ pc = "loop"
    /\ index <= Len(data)
    /\ ~all_null(data[index])
    /\ \E failAt \in 0..MaxRowFailAt :
        \E s \in {process_row(Enter(failAt), data[index])} :
        /\ Commit(s)
        /\ op' = [name |-> "process_row", row |-> index, err |-> s.err]
        /\ pc' = IF s.err THEN "aborted" ELSE "loop"
        /\ index' = IF s.err THEN index ELSE index + 1
        /\ finalWrites' = IF s.written THEN finalWrites \cup {index} ELSE finalWrites
    /\ UNCHANGED data

\* process_data: the iteration that meets a row whose every field is null
Break ==
    /\ pc = "loop"
    /\ index <= Len(data)
    /\ all_null(data[index])
    /\ pc' = "done"
    /\ op' = [name |-> "break", row |-> index]
    /\ UNCHANGED <<cache, labels, stmts, created, log, calls, properties,
                   item_statements, data, index, finalWrites>>

\* process_data: the iterator is exhausted
Finish ==
    /\ pc = "loop"
    /\ index > Len(data)
    /\ pc' = "done"
    /\ op' = [name |-> "finish"]
    /\ UNCHANGED <<cache, labels, stmts, created, log, calls, properties,
                   item_statements, data, index, finalWrites>>

NextHandler == GetOrCreateItem

NextBatch == Confirm \/ ProcessRow \/ Break \/ Finish

SpecHandler == InitHandler /\ [][NextHandler]_vars

SpecBatch == InitBatch /\ [][NextBatch]_vars

(***************************************************************************)
(* Properties.                                                             *)
(***************************************************************************)
IsResolve(o) == o.name = "get_or_create_item"

IsRow(o) == o.name = "process_row"

Count(statements, prop_nr) ==
    Cardinality({i \in 1..Len(statements) : statements[i].prop = prop_nr})

InstanceOf(q) == [prop |-> "20", kind |-> "WDItemID", value |-> Qid(q)]

RemoteAndCacheUnchanged ==
    cache' = cache /\ labels' = labels /\ stmts' = stmts /\ created' = created

\* C1: a call of get_or_create_item with a title that is a key of the cache
\* returns the cached id, makes no remote call and leaves the cache and the
\* remote store as they were, whatever item_type is passed.
C1_CacheHit ==
    [][(IsResolve(op') /\ op'.title \in DOMAIN cache)
        => /\ ~op'.err
           /\ op'.ret = cache[op'.title]
           /\ log' = <<>>
           /\ RemoteAndCacheUnchanged]_vars

C1_Witness ==
    /\ IsResolve(op) /\ ~op.err /\ log = <<>>
    /\ op.title \in DOMAIN cache
    /\ op.item_type = AUTHOR
    /\ stmts[op.ret] = <<InstanceOf(2)>>

\* C2: a call with a title that is not in the cache and that the remote search
\* finds returns the found id, creates no item, and leaves the id in the cache
\* under that title.
C2_FoundItemIsCached ==
    [][(/\ IsResolve(op') /\ ~op'.err
        /\ op'.title \notin DOMAIN cache
        /\ search_results(labels, op'.title) # <<>>)
        => /\ op'.ret = search_results(labels, op'.title)[1]
           /\ labels' = labels
           /\ op'.title \in DOMAIN cache'
           /\ cache'[op'.title] = op'.ret]_vars

\* C3: process_data takes the rows in order and stops at the first row whose
\* every field is empty: that step resolves nothing, calls nothing and leaves
\* the cache and the remote store alone, it ends the run normally, and no
\* later step does anything.
C3_StopsAtEmptyRow ==
    [][/\ (pc = "loop" /\ index <= Len(data) /\ data[index] = EmptyRow)
            => /\ pc' = "done"
               /\ op'.name = "break"
               /\ RemoteAndCacheUnchanged
               /\ log' = log /\ calls' = calls
               /\ finalWrites' = finalWrites
       /\ (pc = "loop" /\ index <= Len(data) /\ data[index] # EmptyRow)
            => /\ IsRow(op') /\ op'.row = index
               /\ \A j \in 1..index : data[j] # EmptyRow
               /\ finalWrites = 1..(index - 1)
       /\ pc # "done"]_vars

C3_Witness ==
    /\ pc = "done" /\ op.name = "break"
    /\ op.row = 2 /\ Len(data) = 3 /\ data[3] # EmptyRow
    /\ finalWrites = {1}
    /\ created # {}

Present(v) == ~isnull(v) /\ v # PyStr(<<>>)

ScalarColumns ==
    << <<"Fecha", "P2">>, <<"Categoria", "P3">>, <<"Fuente", "P5">>,
       <<"Volumen", "P6">>, <<"Titulo", "P8">>, <<"Pagina", "P9">>,
       <<"ISSN", "P10">>, <<"Cuartil", "P12">>, <<"CuartilIMFD", "P13">>,
       <<"RedFormal", "P14">>, <<"NAsociados", "P16">>, <<"NOtra", "P17">>,
       <<"NEstudiantes", "P18">> >>

\* C4: the statement list built for a row holds exactly one statement on a
\* scalar or reference field's property when the row's value is present (a
\* count of 0 included) and none when it is absent.
C4_OneStatementPerPresentField ==
    (IsRow(op) /\ ~op.err) =>
        \A k \in 1..Len(ScalarColumns) :
            Count(item_statements, ScalarColumns[k][2])
                = IF Present(data[op.row][ScalarColumns[k][1]]) THEN 1 ELSE 0

\* C5: for a DOI cell holding a string, the properties gathered for the row
\* carry either the DOI identifier (P11, a part of the cell without a leading
\* slash) when the cell contains "doi.org", or the related URL (P24, the cell
\* unchanged) when it does not, never both; at most one of the two statements
\* is emitted.
C5_DoiOrUrl ==
    (IsRow(op) /\ properties # <<>> /\ data[op.row].DOI.t = "str") =>
        LET raw == data[op.row].DOI IN
        /\ IF Contains(raw.s, DoiOrg)
           THEN /\ properties.P24 = None
                /\ properties.P11.t = "str"
                /\ Contains(raw.s, properties.P11.s)
                /\ ~StartsWith(properties.P11.s, <<"/">>)
           ELSE /\ properties.P24 = raw
                /\ properties.P11 = None
        /\ ~op.err => Count(item_statements, "P11") + Count(item_statements, "P24") <= 1

C5_Witness ==
    /\ IsRow(op) /\ ~op.err
    /\ data[op.row].DOI.t = "str"
    /\ Contains(data[op.row].DOI.s, DoiOrg)
    /\ ~StartsWith(data[op.row].DOI.s, Http)
    /\ Count(item_statements, "P11") = 1
    /\ Count(item_statements, "P24") = 0

\* an item this run created whose label is not in the cache: the write of its
\* baseline statement failed
Orphan(title) ==
    /\ title \notin DOMAIN cache
    /\ \E n \in created : labels[n] = title

Last(s) == s[Len(s)]

\* C7: when a step of a row fails (the date does not parse, the authors or
\* research-lines cell is no string, or a remote call fails), no remote call
\* follows the failure in that row, the row's final write (the one that
\* carries the title statement P8) is not done, the run is over, and no later
\* row is processed.
C7_ErrorsAreFatal ==
    [][/\ IsRow(op') =>
            LET failed ==
                    \/ format_date(data[index].Fecha) = Error
                    \/ data[index].Autores.t # "str"
                    \/ data[index].Lineas.t # "str"
                    \/ \E i \in 1..Len(log') : ~log'[i].ok
            IN  /\ failed <=> pc' = "aborted"
                /\ failed =>
                    /\ index' = index
                    /\ finalWrites' = finalWrites
                    /\ \A i \in 1..(Len(log') - 1) : log'[i].ok
                    /\ \A n \in 1..Len(stmts') :
                            Count(stmts'[n], "P8")
                                = IF n <= Len(stmts) THEN Count(stmts[n], "P8") ELSE 0
                /\ ~failed =>
                    /\ index' = index + 1
                    /\ \E n \in 1..Len(stmts') :
                            Count(stmts'[n], "P8")
                                = 1 + (IF n <= Len(stmts) THEN Count(stmts[n], "P8") ELSE 0)
       /\ pc # "aborted"
       /\ finalWrites' \subseteq 1..(index' - 1)]_vars

C7_Witness ==
    /\ pc = "aborted" /\ IsRow(op) /\ op.err
    /\ index = 2 /\ Len(data) = 3 /\ data[3] # EmptyRow
    /\ finalWrites = {1}
    /\ log # <<>> /\ ~Last(log).ok /\ Last(log).req.call = "write"
    /\ Last(log).req.n > 1

\* the statements at positions from..to are item references on prop_nr to the
\* items labelled with the stripped pieces, in the order of the pieces
ItemRefs(statements, from, pieces, prop_nr) ==
    \A i \in 1..Len(pieces) :
        LET st == statements[from + i - 1] IN
        /\ st.prop = prop_nr /\ st.kind = "WDItemID" /\ st.value.t = "qid"
        /\ labels[st.value.q] = Strip(pieces[i])

CallsOfType(item_type) ==
    SelectSeq(calls, LAMBDA c : c.item_type = item_type)

\* C8: the built list starts with one P4 item reference per comma-separated
\* piece of the authors cell (semicolons do not split), resolved as AUTHOR in
\* that order; then one P15 item reference per semicolon-separated piece of
\* the research-lines cell, resolved with no item type; the scalar statements
\* come after them.
C8_AuthorsThenResearchLines ==
    (IsRow(op) /\ ~op.err) =>
        LET authors == Split(data[op.row].Autores.s, ",")
            research_lines == Split(data[op.row].Lineas.s, ";")
            a == Len(authors)
            r == Len(research_lines)
        IN  /\ Len(item_statements) >= a + r
            /\ ItemRefs(item_statements, 1, authors, "P4")
            /\ ItemRefs(item_statements, a + 1, research_lines, "P15")
            /\ \A i \in (a + r + 1)..Len(item_statements) :
                    item_statements[i].prop \notin {"P4", "P15"}
            /\ CallsOfType(AUTHOR)
                = [i \in 1..a |-> [title |-> Strip(authors[i]), item_type |-> AUTHOR]]
            /\ \A i \in 1..r :
                    calls[Len(calls) - r + i]
                        = [title |-> Strip(research_lines[i]), item_type |-> NO_TYPE]
            /\ \A i \in 1..a : calls[Len(calls) - r - a + i].item_type = AUTHOR

C8_Witness ==
    /\ IsRow(op) /\ ~op.err
    /\ Contains(data[op.row].Autores.s, <<";">>)
    /\ Count(item_statements, "P4") = 2
    /\ Count(item_statements, "P15") = 1
    /\ item_statements[1].value # item_statements[2].value
    /\ Len(item_statements) > 3

\* C9: get_or_create_item writes a baseline statement only to an item it has
\* just created, and when it returns, the new item carries instance of Q2 for
\* RESEARCH_ARTICLE, instance of Q1 for AUTHOR, and nothing for any other
\* item type; items from the cache or from the search get nothing.
C9_BaselineOnlyOnCreation ==
    [][IsResolve(op') =>
        /\ \A n \in 1..Len(labels) : stmts'[n] = stmts[n]
        /\ Len(labels') \in {Len(labels), Len(labels) + 1}
        /\ Len(labels') = Len(labels) + 1 =>
            LET new == stmts'[Len(labels')] IN
            IF op'.err THEN new = <<>>
            ELSE new = CASE op'.item_type = RESEARCH_ARTICLE -> <<InstanceOf(2)>>
                         [] op'.item_type = AUTHOR -> <<InstanceOf(1)>>
                         [] OTHER -> <<>>]_vars

C9_Witness ==
    /\ \E n \in created : stmts[n] = <<InstanceOf(1)>>
    /\ \E n \in created : stmts[n] = <<>> /\ labels[n] \in DOMAIN cache
    /\ IsResolve(op) /\ ~op.err /\ op.item_type = RESEARCH_ARTICLE
    /\ op.ret \notin created /\ stmts[op.ret] = <<>>

CacheSound ==
    \A name \in DOMAIN cache :
        cache[name] \in 1..Len(labels) /\ labels[cache[name]] = name

NoDuplicateCreated ==
    \A i, j \in created : labels[i] = labels[j] => i = j

\* C10: every cache entry maps a name to an item labelled with that name; an
\* entry is never changed or removed; an item is created only for a title
\* that is neither in the cache nor found by the search; the run never
\* creates two items with the same label.
C10_ResolverInvariant ==
    /\ [](CacheSound /\ NoDuplicateCreated)
    /\ [][/\ \A name \in DOMAIN cache :
                name \in DOMAIN cache' /\ cache'[name] = cache[name]
          /\ labels' # labels =>
                /\ IsResolve(op')
                /\ op'.title \notin DOMAIN cache
                /\ search_results(labels, op'.title) = <<>>
                /\ labels' = Append(labels, op'.title)]_vars

C10_Witness ==
    /\ Cardinality(created) = 3
    /\ Cardinality(DOMAIN cache) = 2
    /\ Len(labels) = 5
    /\ \E n \in created : labels[n] \notin DOMAIN cache

====
